---- MODULE Spec2Model ----
(***************************************************************************)
(* A model of repoze.bfg.security: the ACL authorizer of one node, the     *)
(* hierarchical ACL security policy that walks the ancestor chain, the     *)
(* principal resolvers, the Allowed / Denied result classes and flatten.   *)
(*                                                                         *)
(* Python values are modelled as tagged records [t |-> type, v |-> value], *)
(* so that a text value, a list, a tuple and None stay distinguishable:    *)
(* the code's behaviour depends on exactly that distinction.               *)
(***************************************************************************)
EXTENDS Integers, Sequences, FiniteSets, TLC

VARIABLES
    acl,         \* node -> its __acl__ attribute (PyNone when absent)
    parent,      \* node -> its __parent__ (0 when the node is a root)
    policy,      \* the ACLSecurityPolicy instance: logger, get_principals
    pc,          \* thread -> "idle" | "iterate" | "done"
    context,     \* thread -> node the check was asked for (0 when idle)
    request,     \* thread -> the request (its environ)
    permission,  \* thread -> the requested permission
    principals,  \* thread -> the principals the evaluation uses
    location,    \* thread -> node the ancestor walk stands at
    consulted,   \* thread -> nodes an authorizer was built for, in order
    result,      \* thread -> what the call returned
    other,       \* thread -> the value the caller compared the result with
    eq,          \* thread -> what result == other gave
    x,           \* the argument of the flatten call under test
    fpc,         \* "arg" | "once" | "twice": how often flatten was applied ("off": no call)
    flat1,       \* flatten(x)
    flat2        \* flatten(flatten(x))

treeVars == <<acl, parent, policy>>
evalVars == <<pc, context, request, permission, principals, location, consulted, result>>
cmpVars == <<other, eq>>
flattenVars == <<x, fpc, flat1, flat2>>
vars == <<acl, parent, policy, pc, context, request, permission, principals,
          location, consulted, result, other, eq, x, fpc, flat1, flat2>>

---------------------------------------------------------------------------
(* Python values *)

Str(s) == [t |-> "str", v |-> s]
List(s) == [t |-> "list", v |-> s]
Tuple(s) == [t |-> "tuple", v |-> s]
PyBool(b) == [t |-> "bool", v |-> b]
PyInt(n) == [t |-> "int", v |-> n]
PyNone == [t |-> "None", v |-> <<>>]
\* what getattr finds when the object has no such attribute
Missing == [t |-> "missing", v |-> <<>>]
\* a raised NoAuthorizationInformation
NoAuthorizationInformation == [t |-> "NoAuthorizationInformation", v |-> <<>>]

Everyone == Str("system.Everyone")
Authenticated == Str("system.Authenticated")
Allow == Str("Allow")
Deny == Str("Deny")

\* isinstance(v, basestring)
IsBasestring(v) == v.t = "str"

\* hasattr(v, "__iter__"): lists and tuples have it, a Python 2 text value has not
HasIter(v) == v.t \in {"list", "tuple"}

\* the elements a for loop over v visits; a text value yields its characters
Iterate(v) ==
    IF v.t = "str"
    THEN [i \in 1..Len(v.v) |-> Str(SubSeq(v.v, i, i))]
    ELSE v.v

---------------------------------------------------------------------------
(* flatten *)

RECURSIVE flatten(_)
RECURSIVE FlattenLoop(_, _, _)

\* the loop "for el in x" of flatten, from element i on, result so far in acc
FlattenLoop(els, i, acc) ==
    IF i > Len(els)
    THEN acc
    ELSE LET el == els[i]
         IN IF HasIter(el) /\ ~IsBasestring(el)
            THEN FlattenLoop(els, i + 1, acc \o flatten(el))
            ELSE FlattenLoop(els, i + 1, Append(acc, el))

\* flatten without its test for a text argument
flattenSplitsText(v) == FlattenLoop(Iterate(v), 1, <<>>)

flatten(v) ==
    IF IsBasestring(v)
    THEN <<v>>
    ELSE FlattenLoop(Iterate(v), 1, <<>>)

---------------------------------------------------------------------------
(* PermitsResult, Denied, Allowed *)

PermitsResult(cls, ace, aclv, perm, princ, ctx) ==
    [t |-> cls,
     v |-> [ace |-> ace, acl |-> aclv, permission |-> perm,
            principals |-> princ, context_repr |-> ctx]]

Denied(ace, aclv, perm, princ, ctx) == PermitsResult("Denied", ace, aclv, perm, princ, ctx)

Allowed(ace, aclv, perm, princ, ctx) == PermitsResult("Allowed", ace, aclv, perm, princ, ctx)

Denied_nonzero(self) == FALSE

Allowed_nonzero(self) == TRUE

\* bool(v) of Python 2: __nonzero__ of an instance, else the built-in rule
bool(v) ==
    CASE v.t = "Denied" -> Denied_nonzero(v)
      [] v.t = "Allowed" -> Allowed_nonzero(v)
      [] v.t = "None" -> FALSE
      [] v.t = "bool" -> v.v
      [] v.t = "int" -> v.v # 0
      [] v.t \in {"str", "list", "tuple"} -> Len(v.v) > 0
      [] v.t = "dict" -> TRUE    \* the identity mappings modelled are never empty

\* Denied.__eq__ with the default identity comparison in its place
Denied_eq_identity(self, o) == self = o

Denied_eq(self, o) == bool(o) = FALSE

\* Allowed.__eq__ with the default identity comparison in its place
Allowed_eq_identity(self, o) == self = o

Allowed_eq(self, o) == bool(o) = TRUE

\* result == o, for a result that is an instance of Denied or Allowed
Result_eq(self, o) ==
    IF self.t = "Denied" THEN Denied_eq(self, o) ELSE Allowed_eq(self, o)

---------------------------------------------------------------------------
(* ACLAuthorizer *)

\* The debug logger is left out: "self.logger and self.logger.debug(str(result))"
\* writes a line and takes no part in what permits returns.

\* getattr(self.context, '__acl__', default)
get_acl(node, default) == IF acl[node] = Missing THEN default ELSE acl[node]

\* "permission in permissions", permissions a flat list
In(perm, permissions) == \E k \in 1..Len(permissions) : permissions[k] = perm

RECURSIVE AceLoop(_, _, _, _, _)
RECURSIVE PrincipalLoop(_, _, _, _, _, _)

\* the principal loop with a matching Deny passed over instead of returned
PrincipalLoop_allow_only(node, aclv, i, j, perm, princ) ==
    LET ace == aclv.v[i]
        flat == flatten(princ)
    IN IF j > Len(flat)
       THEN AceLoop(node, aclv, i + 1, perm, princ)
       ELSE IF ace.v[2] = flat[j] /\ In(perm, flatten(ace.v[3])) /\ ace.v[1] = Allow
            THEN Allowed(ace, aclv, perm, princ, node)
            ELSE PrincipalLoop(node, aclv, i, j + 1, perm, princ)

\* the principal loop with the ACE's principal field flattened before comparison
PrincipalLoop_flattens_ace(node, aclv, i, j, perm, princ) ==
    LET ace == aclv.v[i]
        flat == flatten(princ)
    IN IF j > Len(flat)
       THEN AceLoop(node, aclv, i + 1, perm, princ)
       ELSE IF In(flat[j], flatten(ace.v[2])) /\ In(perm, flatten(ace.v[3]))
            THEN IF ace.v[1] = Allow
                 THEN Allowed(ace, aclv, perm, princ, node)
                 ELSE Denied(ace, aclv, perm, princ, node)
            ELSE PrincipalLoop(node, aclv, i, j + 1, perm, princ)

\* the loop "for principal in flatten(principals)" for the ACE at index i, from
\* the j-th flattened principal on; when it ends the scan goes to the next ACE
PrincipalLoop(node, aclv, i, j, perm, princ) ==
    LET ace == aclv.v[i]
        ace_action == ace.v[1]
        ace_principal == ace.v[2]
        ace_permissions == ace.v[3]
        flat == flatten(princ)
    IN IF j > Len(flat)
       THEN AceLoop(node, aclv, i + 1, perm, princ)
       ELSE IF ace_principal = flat[j] /\ In(perm, flatten(ace_permissions))
            THEN IF ace_action = Allow
                 THEN Allowed(ace, aclv, perm, princ, node)
                 ELSE Denied(ace, aclv, perm, princ, node)
            ELSE PrincipalLoop(node, aclv, i, j + 1, perm, princ)

\* the ACE loop raising at its end instead of denying
AceLoop_raises(node, aclv, i, perm, princ) ==
    IF i > Len(aclv.v)
    THEN NoAuthorizationInformation
    ELSE PrincipalLoop(node, aclv, i, 1, perm, princ)

\* the loop "for ace in acl", from the ACE at index i on
AceLoop(node, aclv, i, perm, princ) ==
    IF i > Len(aclv.v)
    THEN Denied(PyNone, aclv, perm, princ, node)
    ELSE PrincipalLoop(node, aclv, i, 1, perm, princ)

\* ACLAuthorizer(node, logger).permits(perm, *princ): a result, or the exception
ACLAuthorizer_permits(node, perm, princ) ==
    LET aclv == get_acl(node, PyNone)
    IN IF aclv = PyNone
       THEN NoAuthorizationInformation
       ELSE AceLoop(node, aclv, 1, perm, princ)

---------------------------------------------------------------------------
(* principal resolvers and ACLSecurityPolicy *)

\* request.environ.get(key)
Environ(req, key) == req.environ[key]

get_remoteuser(req) ==
    LET user_id == Environ(req, "REMOTE_USER")
    IN IF bool(user_id) THEN <<user_id>> ELSE <<>>

get_who_principals(req) ==
    LET identity == Environ(req, "identity")
    IN IF ~bool(identity)
       THEN <<>>
       ELSE <<identity.v.userid>> \o
            (IF identity.v.groups = Missing THEN <<>> ELSE identity.v.groups.v)

\* self.get_principals(request): the strategy the policy was constructed with
get_principals(req) ==
    IF policy.get_principals = "get_remoteuser"
    THEN get_remoteuser(req)
    ELSE get_who_principals(req)

\* effective_principals that forgets the Authenticated pseudo-principal
effective_principals_noauth(req) == <<Everyone>> \o get_principals(req)

effective_principals(req) ==
    LET principal_ids == get_principals(req)
    IN IF Len(principal_ids) > 0
       THEN Append(<<Everyone>>, Authenticated) \o principal_ids
       ELSE <<Everyone>>

\* one turn of "for location in LocationIterator(context)" with the walk at loc
\* and the exception papered over by an implicit deny instead of moving on
permits_step_stops(loc, perm, princ) ==
    LET r == ACLAuthorizer_permits(loc, perm, princ)
    IN [op |-> "return", location |-> loc,
        value |-> IF r = NoAuthorizationInformation
                  THEN Denied(PyNone, PyNone, perm, princ, loc) ELSE r]

\* the same turn, never leaving loc
permits_step_stays(loc, perm, princ) ==
    LET r == ACLAuthorizer_permits(loc, perm, princ)
    IN IF r # NoAuthorizationInformation
       THEN [op |-> "return", location |-> loc, value |-> r]
       ELSE [op |-> "continue", location |-> loc, value |-> PyNone]

\* the same turn, moving on whenever the authorizer's answer is not truthy
permits_step_until_allowed(loc, perm, princ) ==
    LET r == ACLAuthorizer_permits(loc, perm, princ)
    IN IF r # NoAuthorizationInformation /\ (bool(r) \/ parent[loc] = 0)
       THEN [op |-> "return", location |-> loc, value |-> r]
       ELSE IF parent[loc] # 0
            THEN [op |-> "continue", location |-> parent[loc], value |-> PyNone]
            ELSE [op |-> "return", location |-> loc, value |-> PyBool(FALSE)]

\* one turn of "for location in LocationIterator(context)" with the walk at loc:
\* return the authorizer's result, or move to the parent, or fall out of the loop
permits_step(loc, perm, princ) ==
    LET r == ACLAuthorizer_permits(loc, perm, princ)
    IN IF r # NoAuthorizationInformation
       THEN [op |-> "return", location |-> loc, value |-> r]
       ELSE IF parent[loc] # 0
            THEN [op |-> "continue", location |-> parent[loc], value |-> PyNone]
            ELSE [op |-> "return", location |-> loc, value |-> PyBool(FALSE)]

---------------------------------------------------------------------------
(* bounds and the inputs the model draws from *)

MaxDepth == 3      \* nodes of the ancestor chain, root included
MaxAclLen == 2     \* ACEs of an ACL handed to the authorizer directly
MaxSeqLen == 2     \* elements of a sequence handed to flatten

Threads == {"t1", "t2"}
OneThread == {"t1"}

SeqsUpTo(S, n) == UNION {[1..k -> S] : k \in 0..n}

ACE(action, principal, perms) == Tuple(<<action, principal, perms>>)

Permissions == {Str("view"), Str("edit")}

Identity(userid, groups) == [t |-> "dict", v |-> [userid |-> userid, groups |-> groups]]

Req(remote_user, identity) ==
    [environ |-> [REMOTE_USER |-> remote_user, identity |-> identity]]

NoRequest == Req(PyNone, PyNone)

Requests ==
    { Req(PyNone, PyNone),
      Req(Str(""), PyNone),
      Req(Str("george"), Identity(Str("george"), Missing)),
      Req(Str("bob"), Identity(Str("bob"),
                               List(<<Str("editors"), Tuple(<<Str("george")>>)>>))) }

\* the ACLs of the spec's examples, an empty ACL and no ACL at all
GeorgeACL == List(<<ACE(Allow, Str("george"), Str("view")), ACE(Deny, Everyone, Str("view"))>>)
EveryoneACL == List(<<ACE(Allow, Everyone, Str("view"))>>)
AuthenticatedACL == List(<<ACE(Deny, Authenticated, Tuple(<<Str("edit"), List(<<Str("view")>>)>>))>>)

WalkACLs == {Missing, List(<<>>), GeorgeACL, EveryoneACL, AuthenticatedACL}
SmallACLs == {Missing, List(<<>>), GeorgeACL}
TwoACLs == {Missing, GeorgeACL}

\* what an ACE handed to the authorizer directly may hold
AcePrincipals ==
    { Everyone, Str("george"), List(<<Str("george")>>),
      Tuple(<<Str("editors"), List(<<Str("george")>>)>>) }
AcePermissions ==
    { Str("view"), Str("edit"), Tuple(<<Str("edit"), List(<<Str("view")>>)>>) }
AuthACEs ==
    {ACE(a, pr, pm) : a \in {Allow, Deny}, pr \in AcePrincipals, pm \in AcePermissions}
AuthACLs == {Missing, PyNone} \cup {List(q) : q \in SeqsUpTo(AuthACEs, MaxAclLen)}

\* principal collections handed to the authorizer directly
PrincipalArgs ==
    { <<Everyone>>,
      <<Everyone, Authenticated, Str("george")>>,
      <<Everyone, Authenticated, Str("bob"), List(<<Str("editors"), Tuple(<<Str("george")>>)>>)>> }

\* arguments of flatten: text values, and sequences nested two deep
FlatAtoms == {Str("a"), Str("de")}
FlatInner == FlatAtoms \cup {Tuple(q) : q \in SeqsUpTo(FlatAtoms, MaxSeqLen)}
FlattenExample ==
    List(<<Str("a"), List(<<Str("b"), List(<<Str("c")>>)>>), Str("de")>>)
FlattenArgs ==
    FlatAtoms \cup {List(q) : q \in SeqsUpTo(FlatInner, MaxSeqLen)} \cup {FlattenExample}

\* values a caller compares a result with
Others ==
    { PyBool(FALSE), PyBool(TRUE), PyInt(0), PyInt(1), PyNone, Str(""), Str("x"),
      List(<<>>), Tuple(<<Str("x")>>),
      Denied(PyNone, List(<<>>), Str("edit"), Tuple(<<Everyone>>), 1),
      Allowed(ACE(Allow, Everyone, Str("view")), EveryoneACL, Str("view"),
              Tuple(<<Everyone>>), 1) }

---------------------------------------------------------------------------
(* initial states *)

Nodes == 1..MaxDepth

IdleThreads ==
    /\ pc = [p \in Threads |-> "idle"]
    /\ context = [p \in Threads |-> 0]
    /\ request = [p \in Threads |-> NoRequest]
    /\ permission = [p \in Threads |-> PyNone]
    /\ principals = [p \in Threads |-> <<>>]
    /\ location = [p \in Threads |-> 0]
    /\ consulted = [p \in Threads |-> <<>>]
    /\ result = [p \in Threads |-> PyNone]
    /\ other = [p \in Threads |-> Missing]
    /\ eq = [p \in Threads |-> FALSE]

NoFlatten ==
    /\ x = PyNone
    /\ fpc = "off"
    /\ flat1 = <<>>
    /\ flat2 = <<>>

\* a chain of MaxDepth nodes, node 1 the root, each ACL drawn from acls
InitTree(acls, strategies) ==
    /\ acl \in [Nodes -> acls]
    /\ parent = [n \in Nodes |-> n - 1]
    /\ policy \in [logger : {PyNone}, get_principals : strategies]
    /\ IdleThreads
    /\ NoFlatten

Init == InitTree(WalkACLs, {"get_remoteuser", "get_who_principals"})

InitSmall == InitTree(SmallACLs, {"get_who_principals"})

InitConcurrent == InitTree(TwoACLs, {"get_who_principals"})

\* one node whose ACL is any ACL of up to MaxAclLen ACEs
InitAuthorizer ==
    /\ acl \in [{1} -> AuthACLs]
    /\ parent = [n \in {1} |-> 0]
    /\ policy = [logger |-> PyNone, get_principals |-> "get_remoteuser"]
    /\ IdleThreads
    /\ NoFlatten

InitFlatten ==
    /\ acl = [n \in {1} |-> Missing]
    /\ parent = [n \in {1} |-> 0]
    /\ policy = [logger |-> PyNone, get_principals |-> "get_remoteuser"]
    /\ IdleThreads
    /\ x \in FlattenArgs
    /\ fpc = "arg"
    /\ flat1 = <<>>
    /\ flat2 = <<>>

---------------------------------------------------------------------------
(* actions *)

\* ACLSecurityPolicy.permits is entered: the effective principals are computed
\* and the ancestor walk starts at the context
permits_call(p) ==
    /\ pc[p] = "idle"
    /\ \E c \in DOMAIN acl, req \in Requests, perm \in Permissions :
          /\ context' = [context EXCEPT ![p] = c]
          /\ request' = [request EXCEPT ![p] = req]
          /\ permission' = [permission EXCEPT ![p] = perm]
          /\ principals' = [principals EXCEPT ![p] = effective_principals(req)]
          /\ location' = [location EXCEPT ![p] = c]
    /\ pc' = [pc EXCEPT ![p] = "iterate"]
    /\ UNCHANGED <<consulted, result>>
    /\ UNCHANGED <<treeVars, cmpVars, flattenVars>>

\* the authorizer of the current location has no ACL: the walk moves to the parent
permits_continue(p) ==
    LET step == permits_step(location[p], permission[p], Tuple(principals[p]))
    IN /\ pc[p] = "iterate"
       /\ step.op = "continue"
       /\ consulted' = [consulted EXCEPT ![p] = Append(@, location[p])]
       /\ location' = [location EXCEPT ![p] = step.location]
       /\ UNCHANGED <<pc, context, request, permission, principals, result>>
       /\ UNCHANGED <<treeVars, cmpVars, flattenVars>>

\* permits_return reading the principals from an attribute of the shared policy
\* instance, which holds those of whichever evaluation stored them last
permits_return_shared(p) ==
    \E q \in Threads :
       LET step == permits_step(location[p], permission[p], Tuple(principals[q]))
       IN /\ pc[p] = "iterate"
          /\ pc[q] # "idle"
          /\ step.op = "return"
          /\ consulted' = [consulted EXCEPT ![p] = Append(@, location[p])]
          /\ result' = [result EXCEPT ![p] = step.value]
          /\ pc' = [pc EXCEPT ![p] = "done"]
          /\ UNCHANGED <<context, request, permission, principals, location>>
          /\ UNCHANGED <<treeVars, cmpVars, flattenVars>>

\* the call returns: a decision of the current location's authorizer, or False
permits_return(p) ==
    LET step == permits_step(location[p], permission[p], Tuple(principals[p]))
    IN /\ pc[p] = "iterate"
       /\ step.op = "return"
       /\ consulted' = [consulted EXCEPT ![p] = Append(@, location[p])]
       /\ result' = [result EXCEPT ![p] = step.value]
       /\ pc' = [pc EXCEPT ![p] = "done"]
       /\ UNCHANGED <<context, request, permission, principals, location>>
       /\ UNCHANGED <<treeVars, cmpVars, flattenVars>>

\* a caller invokes ACLAuthorizer(node).permits(permission, *principals) itself
authorizer_call(p) ==
    /\ pc[p] = "idle"
    /\ \E c \in DOMAIN acl, perm \in Permissions, princ \in PrincipalArgs :
          /\ context' = [context EXCEPT ![p] = c]
          /\ permission' = [permission EXCEPT ![p] = perm]
          /\ principals' = [principals EXCEPT ![p] = princ]
          /\ location' = [location EXCEPT ![p] = c]
          /\ consulted' = [consulted EXCEPT ![p] = <<c>>]
          /\ result' = [result EXCEPT ![p] = ACLAuthorizer_permits(c, perm, Tuple(princ))]
    /\ pc' = [pc EXCEPT ![p] = "done"]
    /\ UNCHANGED request
    /\ UNCHANGED <<treeVars, cmpVars, flattenVars>>

\* the caller compares the Allowed or Denied it got with some value
compare(p) ==
    /\ pc[p] = "done"
    /\ result[p].t \in {"Allowed", "Denied"}
    /\ other[p] = Missing
    /\ \E o \in Others :
          /\ other' = [other EXCEPT ![p] = o]
          /\ eq' = [eq EXCEPT ![p] = Result_eq(result[p], o)]
    /\ UNCHANGED <<treeVars, evalVars, flattenVars>>

\* the caller is done with the result; the thread is free for the next request
finish(p) ==
    /\ pc[p] = "done"
    /\ pc' = [pc EXCEPT ![p] = "idle"]
    /\ context' = [context EXCEPT ![p] = 0]
    /\ request' = [request EXCEPT ![p] = NoRequest]
    /\ permission' = [permission EXCEPT ![p] = PyNone]
    /\ principals' = [principals EXCEPT ![p] = <<>>]
    /\ location' = [location EXCEPT ![p] = 0]
    /\ consulted' = [consulted EXCEPT ![p] = <<>>]
    /\ result' = [result EXCEPT ![p] = PyNone]
    /\ other' = [other EXCEPT ![p] = Missing]
    /\ eq' = [eq EXCEPT ![p] = FALSE]
    /\ UNCHANGED <<treeVars, flattenVars>>

\* flatten(x)
flatten_call ==
    /\ fpc = "arg"
    /\ flat1' = flatten(x)
    /\ fpc' = "once"
    /\ UNCHANGED <<x, flat2>>
    /\ UNCHANGED <<treeVars, evalVars, cmpVars>>

\* flatten(flatten(x))
flatten_again ==
    /\ fpc = "once"
    /\ flat2' = flatten(List(flat1))
    /\ fpc' = "twice"
    /\ UNCHANGED <<x, flat1>>
    /\ UNCHANGED <<treeVars, evalVars, cmpVars>>

---------------------------------------------------------------------------
(* specifications *)

Next ==
    \E p \in OneThread :
        permits_call(p) \/ permits_continue(p) \/ permits_return(p) \/ finish(p)

NextCompare ==
    \E p \in OneThread :
        \/ permits_call(p) \/ permits_continue(p) \/ permits_return(p) \/ finish(p)
        \/ compare(p)

NextConcurrent ==
    \E p \in Threads :
        permits_call(p) \/ permits_continue(p) \/ permits_return(p) \/ finish(p)

NextAuthorizer == \E p \in OneThread : authorizer_call(p) \/ finish(p)

NextFlatten == flatten_call \/ flatten_again

\* the hierarchical policy, one thread, every ACL of WalkACLs on every node
Spec == Init /\ [][Next]_vars

\* the policy and a caller that compares the results it gets
SpecResult == InitSmall /\ [][NextCompare]_vars

\* two threads share one policy instance and one resource tree
SpecConcurrent == InitConcurrent /\ [][NextConcurrent]_vars

\* a started evaluation keeps running: the walk is a synchronous loop
FairSpec ==
    /\ InitSmall
    /\ [][Next]_vars
    /\ \A p \in OneThread : WF_vars(permits_continue(p) \/ permits_return(p))

\* the authorizer of one node, called directly
SpecAuthorizer == InitAuthorizer /\ [][NextAuthorizer]_vars

\* flatten, applied once and twice
SpecFlatten == InitFlatten /\ [][NextFlatten]_vars

---------------------------------------------------------------------------
(* what the claims speak of, stated without the code's loops *)

RECURSIVE AtomsOf(_)
\* the set of text values found anywhere inside v
AtomsOf(v) ==
    IF v.t = "str" THEN {v} ELSE UNION {AtomsOf(v.v[k]) : k \in 1..Len(v.v)}

HasACL(n) == acl[n] \notin {Missing, PyNone}

IsResult(r) == r.t \in {"Allowed", "Denied"}

\* the ACE names one of the caller's principals and grants or denies perm
AceMatches(ace, perm, princ) ==
    /\ ace.v[2] \in AtomsOf(Tuple(princ))
    /\ perm \in AtomsOf(ace.v[3])

\* the same, with the ACE's principal field flattened too
AceMatchesFlattened(ace, perm, princ) ==
    /\ AtomsOf(ace.v[2]) \cap AtomsOf(Tuple(princ)) # {}
    /\ perm \in AtomsOf(ace.v[3])

\* index of the first matching ACE of the ACL, 0 when none matches
FirstMatch(aclv, perm, princ) ==
    LET hits == {k \in 1..Len(aclv.v) : AceMatches(aclv.v[k], perm, princ)}
    IN IF hits = {} THEN 0 ELSE CHOOSE k \in hits : \A m \in hits : k <= m

FirstMatchFlattened(aclv, perm, princ) ==
    LET hits == {k \in 1..Len(aclv.v) : AceMatchesFlattened(aclv.v[k], perm, princ)}
    IN IF hits = {} THEN 0 ELSE CHOOSE k \in hits : \A m \in hits : k <= m

ClassOf(ace) == IF ace.v[1] = Allow THEN "Allowed" ELSE "Denied"

RECURSIVE Chain(_)
\* the ancestor chain of n: n, its parent, ... , the root
Chain(n) == IF n = 0 THEN <<>> ELSE <<n>> \o Chain(parent[n])

\* position in the chain of the first node that has an ACL, 0 when none has
FirstWithACL(ch) ==
    LET has == {k \in 1..Len(ch) : HasACL(ch[k])}
    IN IF has = {} THEN 0 ELSE CHOOSE k \in has : \A m \in has : k <= m

Range(q) == {q[k] : k \in 1..Len(q)}

---------------------------------------------------------------------------
(* claims about ACLAuthorizer.permits, under SpecAuthorizer *)

\* C1: on a node that has an ACL, the first ACE in list order that matches one of
\* the caller's principals and the requested permission decides: the result is
\* Allowed for Allow and Denied for Deny, with that ACE as the deciding ACE,
\* whatever later ACEs would say.
C1_FirstMatchWins ==
    \A p \in OneThread :
        (pc[p] = "done" /\ HasACL(context[p])) =>
            LET aclv == acl[context[p]]
                k == FirstMatch(aclv, permission[p], principals[p])
            IN k # 0 =>
                 /\ result[p].t = ClassOf(aclv.v[k])
                 /\ result[p].v.ace = aclv.v[k]

\* a later ACE matches too and says the opposite of the first matching ACE
C1_Witness ==
    \E p \in OneThread :
        /\ pc[p] = "done"
        /\ HasACL(context[p])
        /\ LET aclv == acl[context[p]]
               k == FirstMatch(aclv, permission[p], principals[p])
           IN /\ k # 0
              /\ \E m \in (k + 1)..Len(aclv.v) :
                    /\ AceMatches(aclv.v[m], permission[p], principals[p])
                    /\ ClassOf(aclv.v[m]) # ClassOf(aclv.v[k])
              /\ result[p].t = "Denied"

\* C4: an ACL that is empty or holds no matching ACE gives a Denied with no
\* deciding ACE, the consulted ACL, the requested permission and the caller's
\* principals; nothing is raised.
C4_ImplicitDeny ==
    \A p \in OneThread :
        (pc[p] = "done" /\ HasACL(context[p])) =>
            (FirstMatch(acl[context[p]], permission[p], principals[p]) = 0 =>
                 /\ result[p].t = "Denied"
                 /\ result[p].v.ace = PyNone
                 /\ result[p].v.acl = acl[context[p]]
                 /\ result[p].v.permission = permission[p]
                 /\ result[p].v.principals = Tuple(principals[p]))

\* an ACE names a caller principal but not the requested permission
C4_Witness ==
    \E p \in OneThread :
        /\ pc[p] = "done"
        /\ HasACL(context[p])
        /\ FirstMatch(acl[context[p]], permission[p], principals[p]) = 0
        /\ \E k \in 1..Len(acl[context[p]].v) :
              /\ acl[context[p]].v[k].v[2] \in AtomsOf(Tuple(principals[p]))
              /\ permission[p] \notin AtomsOf(acl[context[p]].v[k].v[3])
        /\ result[p].t = "Denied"

---------------------------------------------------------------------------
(* claims about ACLSecurityPolicy, under Spec, SpecConcurrent and FairSpec *)

\* C2: permits visits the ancestor chain from the target node upwards and
\* returns the decision of the first node that has an ACL, empty or not: the
\* nodes consulted are exactly the chain up to that node, the result carries
\* that node and its ACL, and it is Allowed exactly when the first matching ACE
\* of that ACL allows, whatever the ACLs further up say.
C2_ClosestACLDecides ==
    \A p \in OneThread :
        pc[p] = "done" =>
            LET ch == Chain(context[p])
                k == FirstWithACL(ch)
            IN k # 0 =>
                 LET aclv == acl[ch[k]]
                     m == FirstMatch(aclv, permission[p], principals[p])
                 IN /\ consulted[p] = SubSeq(ch, 1, k)
                    /\ IsResult(result[p])
                    /\ result[p].v.acl = aclv
                    /\ result[p].v.context_repr = ch[k]
                    /\ result[p].t = (IF m = 0 THEN "Denied" ELSE ClassOf(aclv.v[m]))

\* the closest ACL denies and an ACL further up would have allowed
C2_Witness ==
    \E p \in OneThread :
        /\ pc[p] = "done"
        /\ LET ch == Chain(context[p])
               k == FirstWithACL(ch)
           IN /\ k # 0
              /\ result[p].t = "Denied"
              /\ \E j \in (k + 1)..Len(ch) :
                    /\ HasACL(ch[j])
                    /\ LET m == FirstMatch(acl[ch[j]], permission[p], principals[p])
                       IN m # 0 /\ ClassOf(acl[ch[j]].v[m]) = "Allowed"

C5_EffectivePrincipals ==
    \A p \in OneThread :
        pc[p] # "idle" =>
            LET raw == get_principals(request[p])
                eff == principals[p]
            IN /\ eff[1] = Everyone
               /\ raw = <<>> => eff = <<Everyone>>
               /\ raw # <<>> => eff = <<Everyone, Authenticated>> \o raw
               /\ (Authenticated \in Range(eff)) <=> (raw # <<>>)
               /\ (pc[p] = "done" /\ IsResult(result[p])) =>
                       result[p].v.principals = Tuple(eff)

\* an authenticated request with groups was decided
C5_Witness ==
    \E p \in OneThread :
        /\ pc[p] = "done"
        /\ IsResult(result[p])
        /\ Len(get_principals(request[p])) >= 2
        /\ Len(principals[p]) = Len(get_principals(request[p])) + 2

RECURSIVE PermitsAlone(_, _, _)
\* what permits returns for a walk that starts at n, with nothing else running
PermitsAlone(n, perm, princ) ==
    IF n = 0
    THEN PyBool(FALSE)
    ELSE IF HasACL(n)
         THEN LET m == FirstMatch(acl[n], perm, princ)
              IN IF m = 0
                 THEN Denied(PyNone, acl[n], perm, Tuple(princ), n)
                 ELSE PermitsResult(ClassOf(acl[n].v[m]), acl[n].v[m], acl[n], perm,
                                    Tuple(princ), n)
         ELSE PermitsAlone(parent[n], perm, princ)

ResultsIsolated ==
    \A p \in Threads :
        pc[p] = "done" =>
            result[p] = PermitsAlone(context[p], permission[p],
                                     effective_principals(request[p]))

\* C7: evaluations interleaved on one policy instance and one tree each return
\* what they would return alone, and no step of an evaluation changes the
\* policy's configuration, an ACL or a parent link.
C7_Isolation ==
    /\ []ResultsIsolated
    /\ [][acl' = acl /\ parent' = parent /\ policy' = policy]_vars

\* two evaluations of different requests overlap, and one of them has returned
C7_Witness ==
    /\ pc["t1"] = "done"
    /\ pc["t2"] = "iterate"
    /\ Len(consulted["t2"]) >= 1
    /\ request["t1"] # request["t2"]
    /\ principals["t1"] # principals["t2"]
    /\ IsResult(result["t1"])

NoRevisit(p) ==
    LET ch == Chain(context[p])
    IN /\ Len(consulted[p]) <= Len(ch)
       /\ \A i, j \in 1..Len(consulted[p]) : i # j => consulted[p][i] # consulted[p][j]
       /\ Range(consulted[p]) \subseteq Range(ch)

\* C8: on a finite acyclic chain a started permits call returns, having built at
\* most one authorizer per node of the chain and visited no node twice.
C8_Terminates ==
    /\ [](\A p \in OneThread : NoRevisit(p))
    /\ \A p \in OneThread : (pc[p] = "iterate") ~> (pc[p] = "done")

\* a call returned after consulting every node of a chain of three or more
C8_Witness ==
    \E p \in OneThread :
        /\ pc[p] = "done"
        /\ Len(consulted[p]) >= 3
        /\ consulted[p] = Chain(context[p])

---------------------------------------------------------------------------
(* the claim about flatten, under SpecFlatten *)

RECURSIVE TextOf(_)
RECURSIVE Concat(_, _)
Concat(strs, i) == IF i > Len(strs) THEN "" ELSE strs[i] \o Concat(strs, i + 1)

\* the text values inside v written one after the other, each closed by a comma
TextOf(v) ==
    IF v.t = "str"
    THEN v.v \o ","
    ELSE Concat([k \in 1..Len(v.v) |-> TextOf(v.v[k])], 1)

\* C9: flatten gives the text values of its argument in their left-to-right
\* order, each of them whole; a text argument gives that one text; flattening
\* the flat result again gives the same sequence.
C9_Flatten ==
    /\ fpc \in {"once", "twice"} =>
          /\ \A k \in 1..Len(flat1) : IsBasestring(flat1[k])
          /\ Range(flat1) = AtomsOf(x)
          /\ TextOf(List(flat1)) = TextOf(x)
          /\ IsBasestring(x) => flat1 = <<x>>
    /\ fpc = "twice" => flat2 = flat1

\* the spec's example was flattened twice
C9_Witness ==
    /\ fpc = "twice"
    /\ x = FlattenExample
    /\ flat1 = <<Str("a"), Str("b"), Str("c"), Str("de")>>
    /\ flat2 = flat1

---------------------------------------------------------------------------
(* the claim about Denied and Allowed, under SpecResult *)

Falsy ==
    {PyBool(FALSE), PyInt(0), PyNone, Str(""), List(<<>>)}
        \cup {o \in Others : o.t = "Denied"}

Truthy == Others \ Falsy

\* C10: a Denied is false and equals exactly the values that are false, an
\* Allowed is true and equals exactly the values that are true, whatever ACE,
\* ACL, permission, principals and node the result stores; a Denied never
\* equals an Allowed.
C10_ResultEquality ==
    \A p \in OneThread :
        (pc[p] = "done" /\ IsResult(result[p])) =>
            /\ bool(result[p]) = (result[p].t = "Allowed")
            /\ other[p] # Missing =>
                  /\ result[p].t = "Denied" => (eq[p] <=> other[p] \in Falsy)
                  /\ result[p].t = "Allowed" => (eq[p] <=> other[p] \in Truthy)
                  /\ (IsResult(other[p]) /\ other[p].t # result[p].t) => ~eq[p]

\* a Denied was compared with a Denied that stores other details
C10_Witness ==
    \E p \in OneThread :
        /\ pc[p] = "done"
        /\ result[p].t = "Denied"
        /\ other[p].t = "Denied"
        /\ other[p] # result[p]
        /\ eq[p]

====
